---- MODULE Spec2Model ----
(***************************************************************************)
(* Resume screening engine: text extraction with OCR fallback, the hybrid  *)
(* scorer, the two batch drivers (batch_analyze, evaluate_resumes) and the *)
(* regex field heuristics of ResumeParser.                                 *)
(*                                                                         *)
(* Text is a sequence of one-character strings.  Scores are fixed-point:   *)
(* a cosine similarity is an integer number of thousandths, a score an     *)
(* integer number of tenths of a percent point (72.3 is 723).              *)
(***************************************************************************)
EXTENDS Integers, Sequences, FiniteSets, TLC

VARIABLES
    pc,               \* control point of the batch driver
    entry,            \* which driver runs: "batch_analyze" | "evaluate_resumes"
    model_loaded,     \* self.model is set
    files,            \* the input documents, in input order
    job_description,  \* the job description text
    idx,              \* number of documents the loop has consumed
    extracted,        \* per consumed document: outcome of extract_text
    results,          \* the results list built by the loop
    df,               \* the ranked, sorted table evaluate_resumes returns
    err,              \* exception that reached the top-level caller
    scorer_calls,     \* input positions for which analyze_resume was invoked
    encode_calls,     \* number of model.encode calls so far
    op,               \* single-call harness: the function that was applied
    args,             \* single-call harness: its inputs
    ret               \* single-call harness: its result

batch_vars == <<pc, entry, model_loaded, files, job_description, idx,
                extracted, results, df, err, scorer_calls, encode_calls>>
call_vars == <<op, args, ret>>
vars == <<batch_vars, call_vars>>

----------------------------------------------------------------------------
(* Characters and Python's str / re primitives.                            *)

\* the ASCII letters: [A-Z] and [a-z]
UpperSeq ==
  <<"A", "B", "C", "D", "E", "F", "G", "H", "I", "J", "K", "L", "M", "N",
    "O", "P", "Q", "R", "S", "T", "U", "V", "W", "X", "Y", "Z">>
LowerSeq ==
  <<"a", "b", "c", "d", "e", "f", "g", "h", "i", "j", "k", "l", "m", "n",
    "o", "p", "q", "r", "s", "t", "u", "v", "w", "x", "y", "z">>
Upper == {UpperSeq[k] : k \in 1..Len(UpperSeq)}
Lower == {LowerSeq[k] : k \in 1..Len(LowerSeq)}
Letters == Upper \cup Lower
Digits == {"0", "1", "2", "3", "4", "5", "6", "7", "8", "9"}

\* str.isspace / regex \s
IsSpace(c) == c \in {" ", "\n", "\t"}

\* regex \w
IsWord(c) == c \in Letters \/ c \in Digits \/ c = "_"

\* regex \d
IsDigit(c) == c \in Digits

LowerOf ==
    [c \in Upper |-> LowerSeq[CHOOSE k \in 1..Len(UpperSeq) : UpperSeq[k] = c]]
UpperOf ==
    [c \in Lower |-> UpperSeq[CHOOSE k \in 1..Len(LowerSeq) : LowerSeq[k] = c]]

\* str.lower on one character
LowerChar(c) == IF c \in Upper THEN LowerOf[c] ELSE c

\* str.upper on one character
UpperChar(c) == IF c \in Lower THEN UpperOf[c] ELSE c

ToLower(s) == [k \in 1..Len(s) |-> LowerChar(s[k])]

RECURSIVE LStrip(_)
LStrip(s) ==
    IF s = <<>> THEN <<>>
    ELSE IF IsSpace(Head(s)) THEN LStrip(Tail(s)) ELSE s

RECURSIVE RStrip(_)
RStrip(s) ==
    IF s = <<>> THEN <<>>
    ELSE IF IsSpace(s[Len(s)]) THEN RStrip(SubSeq(s, 1, Len(s) - 1)) ELSE s

\* str.strip()
Strip(s) == RStrip(LStrip(s))

\* `not text.strip()`
IsBlank(s) == Strip(s) = <<>>

RECURSIVE Concat(_)
Concat(ss) == IF ss = <<>> THEN <<>> ELSE Head(ss) \o Concat(Tail(ss))

\* sep.join(parts)
RECURSIVE Join(_, _)
Join(parts, sep) ==
    IF parts = <<>> THEN <<>>
    ELSE IF Len(parts) = 1 THEN parts[1]
    ELSE parts[1] \o sep \o Join(Tail(parts), sep)

\* `needle in hay` for strings
IsSubstring(needle, hay) ==
    \E k \in 0..(Len(hay) - Len(needle)) :
        SubSeq(hay, k + 1, k + Len(needle)) = needle

RECURSIVE SeqFilterNonBlank(_)
SeqFilterNonBlank(ss) ==
    IF ss = <<>> THEN <<>>
    ELSE IF IsBlank(Head(ss)) THEN SeqFilterNonBlank(Tail(ss))
    ELSE <<Head(ss)>> \o SeqFilterNonBlank(Tail(ss))

----------------------------------------------------------------------------
(* Text Extractor (model_handling.py).  A document carries what each       *)
(* external library does with its bytes: PyMuPDF (layer), pdf2image +      *)
(* Tesseract (ocr), python-docx (docx).  ok = FALSE: the library raises.   *)
(* An extraction outcome is [raised, text, calls]: whether an exception    *)
(* left the function, the returned string, the extractors entered.         *)

Returned(t, c) == [raised |-> FALSE, text |-> t, calls |-> c]
Raised(c) == [raised |-> TRUE, text |-> <<>>, calls |-> c]

\* `except Exception: return ""`
CatchEmpty(o) == IF o.raised THEN Returned(<<>>, o.calls) ELSE o

DigitChar(n) == CASE n = 1 -> "1" [] n = 2 -> "2" [] n = 3 -> "3"
                  [] n = 4 -> "4" [] OTHER -> "5"

\* f"Page {i+1}:\n{page_text}\n\n" for the pages OCR found text on
RECURSIVE OcrPagesText(_, _)
OcrPagesText(pages, n) ==
    IF pages = <<>> THEN <<>>
    ELSE (IF IsBlank(Head(pages)) THEN <<>>
          ELSE <<"P", "a", "g", "e", " ", DigitChar(n), ":", "\n">>
               \o Head(pages) \o <<"\n", "\n">>)
         \o OcrPagesText(Tail(pages), n + 1)

\* the try body of extract_text_with_ocr
OcrBody(doc) ==
    IF ~doc.ocr.ok THEN Raised({"ocr"})
    ELSE Returned(Strip(OcrPagesText(doc.ocr.pages, 1)), {"ocr"})

extract_text_with_ocr(doc) == CatchEmpty(OcrBody(doc))

\* text += page_text + "\n" for the pages with a non-blank text layer
RECURSIVE LayerText(_)
LayerText(pages) ==
    IF pages = <<>> THEN <<>>
    ELSE (IF IsBlank(Head(pages)) THEN <<>> ELSE Head(pages) \o <<"\n">>)
         \o LayerText(Tail(pages))

\* extract_text_from_pdf that runs OCR on every PDF PyMuPDF can open
PdfBodyOcrAlways(doc) ==
    IF ~doc.layer.ok THEN Raised({"pdf"})
    ELSE LET o == extract_text_with_ocr(doc)
         IN  IF ~IsBlank(LayerText(doc.layer.pages))
             THEN Returned(LayerText(doc.layer.pages), {"pdf", "ocr"})
             ELSE [o EXCEPT !.calls = @ \cup {"pdf"}]

\* the try body of extract_text_from_pdf
PdfBody(doc) ==
    IF ~doc.layer.ok THEN Raised({"pdf"})
    ELSE IF ~IsBlank(LayerText(doc.layer.pages))
         THEN Returned(LayerText(doc.layer.pages), {"pdf"})
         ELSE LET o == extract_text_with_ocr(doc)
              IN  [o EXCEPT !.calls = @ \cup {"pdf"}]

\* extract_text_from_pdf that answers a PyMuPDF failure with the OCR text
PdfOcrOnError(doc) ==
    IF PdfBody(doc).raised
    THEN [extract_text_with_ocr(doc) EXCEPT !.calls = @ \cup {"pdf"}]
    ELSE PdfBody(doc)

extract_text_from_pdf(doc) == CatchEmpty(PdfBody(doc))

\* the try body of extract_text_from_docx
DocxBody(doc) ==
    IF ~doc.docx.ok THEN Raised({"docx"})
    ELSE Returned(Join(SeqFilterNonBlank(doc.docx.paras), <<"\n">>), {"docx"})

extract_text_from_docx(doc) == CatchEmpty(DocxBody(doc))

\* extract_text without the empty-buffer check and with every tag other
\* than "pdf" read as "docx"
ExtractTextNoGuards(doc, file_format) ==
    CatchEmpty(IF file_format = "pdf" THEN extract_text_from_pdf(doc)
               ELSE extract_text_from_docx(doc))

\* extract_text(content, file_format)
extract_text(doc, file_format) ==
    IF doc.empty THEN Returned(<<>>, {})
    ELSE CatchEmpty(
           IF file_format = "pdf" THEN extract_text_from_pdf(doc)
           ELSE IF file_format = "docx" THEN extract_text_from_docx(doc)
           ELSE Returned(<<>>, {}))

----------------------------------------------------------------------------
(* Similarity Engine and Scorer (model_handling.py).                       *)

\* re.sub(r'\s+', ' ', text)
RECURSIVE CollapseSpace(_)
CollapseSpace(s) ==
    IF s = <<>> THEN <<>>
    ELSE IF IsSpace(Head(s))
         THEN <<" ">> \o CollapseSpace(LStrip(s))
         ELSE <<Head(s)>> \o CollapseSpace(Tail(s))

\* re.sub(r'[^\w\s\-]', '', text)
RECURSIVE DropPunct(_)
DropPunct(s) ==
    IF s = <<>> THEN <<>>
    ELSE (IF IsWord(Head(s)) \/ IsSpace(Head(s)) \/ Head(s) = "-"
          THEN <<Head(s)>> ELSE <<>>) \o DropPunct(Tail(s))

preprocess_text(text) == Strip(ToLower(DropPunct(CollapseSpace(text))))

\* regex \b between s[k] and s[k+1]
WordBoundary(s, k) ==
    (k >= 1 /\ IsWord(s[k])) # (k < Len(s) /\ IsWord(s[k + 1]))

\* length of the run of [a-z] that starts at s[k]
RECURSIVE LowerRun(_, _)
LowerRun(s, k) ==
    IF k <= Len(s) /\ s[k] \in Lower THEN 1 + LowerRun(s, k + 1) ELSE 0

\* re.findall(r'\b[A-Z][a-z]{2,}\b', job_desc), scanning from offset k
RECURSIVE ProperNouns(_, _)
ProperNouns(s, k) ==
    IF k >= Len(s) THEN <<>>
    ELSE LET n == LowerRun(s, k + 2)
         IN  IF /\ WordBoundary(s, k)
                /\ s[k + 1] \in Upper
                /\ n >= 2
                /\ WordBoundary(s, k + 1 + n)
             THEN <<SubSeq(s, k + 1, k + 1 + n)>> \o ProperNouns(s, k + 1 + n)
             ELSE ProperNouns(s, k + 1)

\* the terms of the technical vocabulary, in the order of the alternation
TechVocabulary ==
  <<<<"P", "y", "t", "h", "o", "n">>, <<"J", "a", "v", "a">>,
     <<"C", "+", "+">>,
     <<"J", "a", "v", "a", "S", "c", "r", "i", "p", "t">>,
     <<"T", "y", "p", "e", "S", "c", "r", "i", "p", "t">>,
     <<"R", "e", "a", "c", "t">>, <<"A", "n", "g", "u", "l", "a", "r">>,
     <<"V", "u", "e">>, <<"N", "o", "d", "e", ".", "j", "s">>,
     <<"D", "j", "a", "n", "g", "o">>, <<"F", "l", "a", "s", "k">>,
     <<"S", "p", "r", "i", "n", "g">>,
     <<"H", "i", "b", "e", "r", "n", "a", "t", "e">>,
     <<"P", "o", "s", "t", "g", "r", "e", "S", "Q", "L">>,
     <<"M", "y", "S", "Q", "L">>, <<"M", "o", "n", "g", "o", "D", "B">>,
     <<"R", "e", "d", "i", "s">>,
     <<"E", "l", "a", "s", "t", "i", "c", "s", "e", "a", "r", "c", "h">>,
     <<"D", "o", "c", "k", "e", "r">>,
     <<"K", "u", "b", "e", "r", "n", "e", "t", "e", "s">>,
     <<"A", "W", "S">>, <<"A", "z", "u", "r", "e">>, <<"G", "C", "P">>,
     <<"L", "a", "m", "b", "d", "a">>, <<"S", "3">>, <<"E", "C", "2">>,
     <<"T", "e", "r", "r", "a", "f", "o", "r", "m">>,
     <<"A", "n", "s", "i", "b", "l", "e">>,
     <<"J", "e", "n", "k", "i", "n", "s">>, <<"G", "i", "t">>,
     <<"G", "i", "t", "H", "u", "b">>, <<"G", "i", "t", "L", "a", "b">>,
     <<"C", "I", "/", "C", "D">>, <<"A", "g", "i", "l", "e">>,
     <<"S", "c", "r", "u", "m">>, <<"K", "a", "n", "b", "a", "n">>,
     <<"R", "E", "S", "T">>, <<"A", "P", "I">>,
     <<"G", "r", "a", "p", "h", "Q", "L">>,
     <<"M", "i", "c", "r", "o", "s", "e", "r", "v", "i", "c", "e", "s">>,
     <<"S", "e", "r", "v", "e", "r", "l", "e", "s", "s">>,
     <<"L", "i", "n", "u", "x">>, <<"B", "a", "s", "h">>,
     <<"S", "h", "e", "l", "l">>,
     <<"T", "e", "n", "s", "o", "r", "F", "l", "o", "w">>,
     <<"P", "y", "T", "o", "r", "c", "h">>, <<"K", "e", "r", "a", "s">>,
     <<"P", "a", "n", "d", "a", "s">>, <<"N", "u", "m", "P", "y">>,
     <<"S", "c", "i", "k", "i", "t", "-", "l", "e", "a", "r", "n">>,
     <<"N", "L", "P">>, <<"M", "L">>, <<"A", "I">>,
     <<"D", "a", "t", "a", " ", "S", "c", "i", "e", "n", "c", "e">> >>

TechVocabularyLower ==
    [j \in 1..Len(TechVocabulary) |-> ToLower(TechVocabulary[j])]

\* the terms that start, case-insensitively, with a given character
TechStartingWith ==
    [c \in {TechVocabularyLower[j][1] : j \in 1..Len(TechVocabulary)} |->
        {j \in 1..Len(TechVocabulary) : TechVocabularyLower[j][1] = c}]

\* the first vocabulary term that matches (?i) at offset k with \b after it;
\* 0 when none does
TechTermAt(s, k) ==
    LET c == LowerChar(s[k + 1])
        candidates ==
            IF c \in DOMAIN TechStartingWith THEN TechStartingWith[c] ELSE {}
        hit(j) == /\ k + Len(TechVocabulary[j]) <= Len(s)
                  /\ ToLower(SubSeq(s, k + 1, k + Len(TechVocabulary[j])))
                        = TechVocabularyLower[j]
                  /\ WordBoundary(s, k + Len(TechVocabulary[j]))
        hits == {j \in candidates : hit(j)}
    IN  IF hits = {} THEN 0 ELSE CHOOSE j \in hits : \A h \in hits : j <= h

\* re.findall(r'(?i)\b(Python|...|ML|AI|Data Science)\b', job_desc)
RECURSIVE TechKeywords(_, _)
TechKeywords(s, k) ==
    IF k >= Len(s) THEN <<>>
    ELSE LET j == IF WordBoundary(s, k) THEN TechTermAt(s, k) ELSE 0
         IN  IF j > 0
             THEN <<SubSeq(s, k + 1, k + Len(TechVocabulary[j]))>>
                  \o TechKeywords(s, k + Len(TechVocabulary[j]))
             ELSE TechKeywords(s, k + 1)

\* str.title()
Title(s) ==
    [k \in 1..Len(s) |->
        IF s[k] \in Letters
        THEN IF k > 1 /\ s[k - 1] \in Letters
             THEN LowerChar(s[k]) ELSE UpperChar(s[k])
        ELSE s[k]]

Range(q) == {q[k] : k \in 1..Len(q)}

\* set(proper_nouns + [kw.title() for kw in tech_keywords])
KeywordSet(job_desc) ==
    Range(ProperNouns(job_desc, 0))
      \cup {Title(kw) : kw \in Range(TechKeywords(job_desc, 0))}

Min(a, b) == IF a <= b THEN a ELSE b

\* the sequences without repetition of exactly n elements of S
RECURSIVE Arrangements(_, _)
Arrangements(S, n) ==
    IF n = 0 THEN {<<>>}
    ELSE UNION {{<<x>> \o q : q \in Arrangements(S \ {x}, n - 1)} : x \in S}

\* extract_keywords without set(): the concatenated list, cut at top_n
ExtractKeywordsNoDedup(job_desc, top_n) ==
    LET tech == TechKeywords(job_desc, 0)
        combined == ProperNouns(job_desc, 0)
                      \o [k \in 1..Len(tech) |-> Title(tech[k])]
    IN  {SubSeq(combined, 1, Min(top_n, Len(combined)))}

\* extract_keywords(job_desc, top_n): list(set(...))[:top_n]; a set is
\* listed in an order the interpreter chooses, so every order is possible
extract_keywords(job_desc, top_n) ==
    Arrangements(KeywordSet(job_desc),
                 Min(top_n, Cardinality(KeywordSet(job_desc))))

\* compute_similarity without its blank check: get_embedding encodes ""
\* for a blank text
ComputeSimilarityUnguarded(text1, text2, emb) ==
    IF ~emb.ok THEN [raised |-> TRUE, sim |-> 0, encodes |-> 1]
    ELSE [raised |-> FALSE, sim |-> emb.cos, encodes |-> 2]

\* compute_similarity(text1, text2); emb is what the embedding model does
\* on this pair: ok = FALSE: encode raises; cos: the cosine of the two
\* embeddings, in thousandths
compute_similarity(text1, text2, emb) ==
    IF IsBlank(text1) \/ IsBlank(text2)
    THEN [raised |-> FALSE, sim |-> 0, encodes |-> 0]
    ELSE IF ~emb.ok THEN [raised |-> TRUE, sim |-> 0, encodes |-> 1]
    ELSE [raised |-> FALSE, sim |-> emb.cos, encodes |-> 2]

\* Python's round(): the nearest integer to num / den, ties to even
RoundHalfEven(num, den) ==
    LET q == num \div den
        r == num - q * den
    IN  IF 2 * r < den THEN q
        ELSE IF 2 * r > den THEN q + 1
        ELSE IF q % 2 = 0 THEN q ELSE q + 1

\* the keyword filter that compares the keyword as extracted, not lower-cased
RECURSIVE MatchedCaseSensitive(_, _)
MatchedCaseSensitive(keywords, clean_resume) ==
    IF keywords = <<>> THEN <<>>
    ELSE (IF IsSubstring(Head(keywords), clean_resume)
          THEN <<Head(keywords)>> ELSE <<>>)
         \o MatchedCaseSensitive(Tail(keywords), clean_resume)

\* [kw for kw in keywords if kw.lower() in clean_resume]
RECURSIVE Matched(_, _)
Matched(keywords, clean_resume) ==
    IF keywords = <<>> THEN <<>>
    ELSE (IF IsSubstring(ToLower(Head(keywords)), clean_resume)
          THEN <<Head(keywords)>> ELSE <<>>)
         \o Matched(Tail(keywords), clean_resume)

\* len(matched) / len(keywords) * 100 if keywords else 0, in percent points,
\* as the exact fraction num / den
keyword_score(m, t) ==
    IF t # 0 THEN [num |-> 100 * m, den |-> t] ELSE [num |-> 0, den |-> 1]

\* the final score with the two weights exchanged
FinalScoreWeightsSwapped(sim, m, t) ==
    LET kw == keyword_score(m, t)
    IN  RoundHalfEven(Min(4 * sim * kw.den + 60 * kw.num, 10000 * kw.den),
                      10 * kw.den)

\* round(min(0.60 * semantic_score + 0.40 * keyword_score, 100), 1), in
\* tenths; semantic_score = sim * 100 with sim in thousandths, m of t
\* keywords matched
FinalScore(sim, m, t) ==
    LET kw == keyword_score(m, t)
    IN  RoundHalfEven(Min(6 * sim * kw.den + 40 * kw.num, 10000 * kw.den),
                      10 * kw.den)

\* the bands with >= in place of >
SummaryInclusive(final_score) ==
    IF final_score >= 800 THEN "Outstanding Match"
    ELSE IF final_score >= 650 THEN "Strong Match"
    ELSE IF final_score >= 500 THEN "Moderate Match"
    ELSE IF final_score >= 350 THEN "Needs Improvement"
    ELSE "Unsatisfactory"

\* the summary label of a final score in tenths
Summary(final_score) ==
    IF final_score > 800 THEN "Outstanding Match"
    ELSE IF final_score > 650 THEN "Strong Match"
    ELSE IF final_score > 500 THEN "Moderate Match"
    ELSE IF final_score > 350 THEN "Needs Improvement"
    ELSE "Unsatisfactory"

\* analyze_resume(resume_text, job_description); keywords is the list
\* extract_keywords returned.  clean_resume, clean_job and keyword_score are
\* the locals of these names.
analyze_resume(resume_text, job_desc, keywords, emb) ==
    LET clean_resume == preprocess_text(resume_text)
        clean_job == preprocess_text(job_desc)
        s == compute_similarity(clean_resume, clean_job, emb)
        matched == Matched(keywords, clean_resume)
        final_score == FinalScore(s.sim, Len(matched), Len(keywords))
    IN  [raised |-> s.raised,
         overall_match_score |-> final_score,
         keywords_matched |-> matched,
         keywords_total |-> keywords,
         semantic_relevance |-> s.sim,
         summary |-> Summary(final_score),
         encodes |-> s.encodes,
         clean_resume |-> clean_resume,
         clean_job |-> clean_job,
         keyword_score |-> keyword_score(Len(matched), Len(keywords))]

----------------------------------------------------------------------------
(* Input documents of the batch drivers.                                   *)

Lib(ok, pages) == [ok |-> ok, pages |-> pages]
NoLib == Lib(FALSE, <<>>)

\* readable: open(FilePath) succeeds (evaluate_resumes reads from disk);
\* empty: zero-length content; ext: the declared format tag / file suffix
Doc(readable, empty, ext, layer, ocr, docx) ==
    [readable |-> readable, empty |-> empty, ext |-> ext,
     layer |-> layer, ocr |-> ocr, docx |-> [ok |-> docx.ok, paras |-> docx.pages]]

TextPdf == Doc(TRUE, FALSE, "pdf", Lib(TRUE, << <<"A", "I">> >>), NoLib, NoLib)
ScannedPdf ==
    Doc(TRUE, FALSE, "pdf", Lib(TRUE, << <<" ">> >>),
        Lib(TRUE, << <<"\n">>, <<"M", "L">> >>), NoLib)
CorruptPdf ==
    Doc(TRUE, FALSE, "pdf", NoLib, Lib(TRUE, << <<"a", "i">> >>), NoLib)
WordDoc ==
    Doc(TRUE, FALSE, "docx", NoLib, NoLib,
        Lib(TRUE, << <<"A", "I">>, <<" ">>, <<"m", "l", ".">> >>))
TextFile == Doc(TRUE, FALSE, "txt", NoLib, NoLib, NoLib)
UnreadableFile == Doc(FALSE, FALSE, "pdf", NoLib, NoLib, NoLib)

\* the documents of a batch: a text PDF, a scanned PDF, a PDF PyMuPDF cannot
\* open, a Word document, a file of an unsupported format, an unreadable file
BatchDocuments ==
    {TextPdf, ScannedPdf, CorruptPdf, WordDoc, TextFile, UnreadableFile}

JobDescriptions == { <<"A", "I", " ", "M", "L">>, <<" ">> }

\* what the embedding model can do on one pair of texts
BatchEmbeddings ==
    {[ok |-> TRUE, cos |-> c] : c \in {-100, 900}} \cup {[ok |-> FALSE, cos |-> 0]}

MaxDocs == 3

TopN == 30

RECURSIVE SeqsUpTo(_, _)
SeqsUpTo(S, n) ==
    IF n = 0 THEN {<<>>}
    ELSE LET shorter == SeqsUpTo(S, n - 1)
         IN  shorter
               \cup {Append(q, x) : q \in {r \in shorter : Len(r) = n - 1}, x \in S}

----------------------------------------------------------------------------
(* Model load (UniversalResumeAnalyzer.__init__, AIResumeEvaluator).       *)

\* __init__ that logs the failure and carries on
AnalyzerInitSwallow(load_ok) == [raised |-> FALSE, loaded |-> load_ok]

\* __init__: load the model; on failure log and re-raise
analyzer_init(load_ok) ==
    IF load_ok THEN [raised |-> FALSE, loaded |-> TRUE]
    ELSE [raised |-> TRUE, loaded |-> FALSE]

Construct ==
    /\ pc = "new"
    /\ \E load_ok \in BOOLEAN :
         LET o == analyzer_init(load_ok)
         IN  /\ model_loaded' = o.loaded
             /\ pc' = IF o.raised THEN "raised" ELSE "loop"
             /\ err' = IF o.raised THEN "ModelLoadError" ELSE err
    /\ UNCHANGED <<entry, files, job_description, idx, extracted, results, df,
                   scorer_calls, encode_calls, call_vars>>

----------------------------------------------------------------------------
(* Batch drivers.  A result row is                                         *)
(* [pos, Error, overall_match_score, keywords_matched, semantic_relevance, *)
(*  summary]; pos is the input position (the resume's identity).           *)

\* the row has no "Error" key
NoError == ""

SentinelRow(pos, error, summary) ==
    [pos |-> pos, Error |-> error, overall_match_score |-> 0,
     keywords_matched |-> <<>>, semantic_relevance |-> 0, summary |-> summary]

RealRow(pos, analysis) ==
    [pos |-> pos, Error |-> NoError,
     overall_match_score |-> analysis.overall_match_score,
     keywords_matched |-> analysis.keywords_matched,
     semantic_relevance |-> analysis.semantic_relevance,
     summary |-> analysis.summary]

\* an unloaded model cannot encode
CanEncode(emb) == emb.ok => model_loaded

\* one iteration of the loop of batch_analyze: [row, scored, encodes]
batch_analyze_item(pos, doc, job_desc, keywords, emb) ==
    LET x == extract_text(doc, doc.ext)
        a == analyze_resume(x.text, job_desc, keywords, emb)
    IN  IF x.raised
        THEN [row |-> SentinelRow(pos, "extract_text raised", "Processing failed"),
              scored |-> FALSE, encodes |-> 0]
        ELSE IF IsBlank(x.text)
        THEN [row |-> SentinelRow(pos, "No text extracted", "No content detected"),
              scored |-> FALSE, encodes |-> 0]
        ELSE IF a.raised
        THEN [row |-> SentinelRow(pos, "encode raised", "Processing failed"),
              scored |-> TRUE, encodes |-> a.encodes]
        ELSE [row |-> RealRow(pos, a), scored |-> TRUE, encodes |-> a.encodes]

BatchAnalyzeStep ==
    /\ pc = "loop"
    /\ entry = "batch_analyze"
    /\ idx < Len(files)
    /\ \E keywords \in extract_keywords(job_description, TopN),
          emb \in BatchEmbeddings :
         /\ CanEncode(emb)
         /\ LET pos == idx + 1
                r == batch_analyze_item(pos, files[pos], job_description,
                                        keywords, emb)
            IN  /\ results' = Append(results, r.row)
                /\ scorer_calls' = IF r.scored THEN scorer_calls \cup {pos}
                                   ELSE scorer_calls
                /\ encode_calls' = encode_calls + r.encodes
                /\ extracted' = Append(extracted, extract_text(files[pos], files[pos].ext))
    /\ idx' = idx + 1
    /\ UNCHANGED <<pc, entry, model_loaded, files, job_description, df, err,
                   call_vars>>

\* batch_analyze returns the results list as built
BatchAnalyzeReturn ==
    /\ pc = "loop"
    /\ entry = "batch_analyze"
    /\ idx = Len(files)
    /\ pc' = "returned"
    /\ UNCHANGED <<entry, model_loaded, files, job_description, idx, extracted,
                   results, df, err, scorer_calls, encode_calls, call_vars>>

\* file_format = "pdf" if filename.lower().endswith(".pdf") else "docx"
FormatOfName(doc) == IF doc.ext = "pdf" THEN "pdf" ELSE "docx"

\* one iteration of the loop of evaluate_resumes: [raised, row, ...]
evaluate_item(pos, doc, job_desc, keywords, emb) ==
    LET x == extract_text(doc, FormatOfName(doc))
        a == analyze_resume(x.text, job_desc, keywords, emb)
    IN  IF ~doc.readable
        THEN [raised |-> "OSError", row |-> SentinelRow(pos, NoError, ""),
              opened |-> FALSE, scored |-> FALSE, encodes |-> 0]
        ELSE IF x.raised
        THEN [raised |-> "ExtractError", row |-> SentinelRow(pos, NoError, ""),
              opened |-> TRUE, scored |-> FALSE, encodes |-> 0]
        ELSE IF a.raised
        THEN [raised |-> "EncodeError", row |-> SentinelRow(pos, NoError, ""),
              opened |-> TRUE, scored |-> TRUE, encodes |-> a.encodes]
        ELSE [raised |-> "", row |-> RealRow(pos, a),
              opened |-> TRUE, scored |-> TRUE, encodes |-> a.encodes]

EvaluateStep ==
    /\ pc = "loop"
    /\ entry = "evaluate_resumes"
    /\ idx < Len(files)
    /\ \E keywords \in extract_keywords(job_description, TopN),
          emb \in BatchEmbeddings :
         /\ CanEncode(emb)
         /\ LET pos == idx + 1
                r == evaluate_item(pos, files[pos], job_description, keywords, emb)
            IN  /\ pc' = IF r.raised = "" THEN "loop" ELSE "raised"
                /\ err' = IF r.raised = "" THEN err ELSE r.raised
                /\ results' = IF r.raised = "" THEN Append(results, r.row)
                              ELSE results
                /\ scorer_calls' = IF r.scored THEN scorer_calls \cup {pos}
                                   ELSE scorer_calls
                /\ encode_calls' = encode_calls + r.encodes
                /\ extracted' =
                     IF r.opened
                     THEN Append(extracted,
                                 extract_text(files[pos], FormatOfName(files[pos])))
                     ELSE extracted
    /\ idx' = idx + 1
    /\ UNCHANGED <<entry, model_loaded, files, job_description, df, call_vars>>

\* rank(method='min'): rows with equal scores share the lowest rank
RankMin(rows, k) ==
    1 + Cardinality({j \in 1..Len(rows) :
                        rows[j].overall_match_score > rows[k].overall_match_score})

\* a descending rank obtained by reversing an ascending one: rows with equal
\* scores are numbered last-in-first
RankTiesReversed(rows, k) ==
    1 + Cardinality({j \in 1..Len(rows) :
                        rows[j].overall_match_score > rows[k].overall_match_score})
      + Cardinality({j \in (k + 1)..Len(rows) :
                        rows[j].overall_match_score = rows[k].overall_match_score})

\* Series.rank(ascending=False, method='first') of the row at position k
RankFirst(rows, k) ==
    1 + Cardinality({j \in 1..Len(rows) :
                        rows[j].overall_match_score > rows[k].overall_match_score})
      + Cardinality({j \in 1..(k - 1) :
                        rows[j].overall_match_score = rows[k].overall_match_score})

\* df['Rank'] = ...
WithRank(rows) ==
    [k \in 1..Len(rows) |->
        [pos |-> rows[k].pos, Error |-> rows[k].Error,
         overall_match_score |-> rows[k].overall_match_score,
         keywords_matched |-> rows[k].keywords_matched,
         semantic_relevance |-> rows[k].semantic_relevance,
         summary |-> rows[k].summary,
         Rank |-> RankFirst(rows, k)]]

IsSortedDescending(rows) ==
    \A k \in 1..(Len(rows) - 1) :
        rows[k].overall_match_score >= rows[k + 1].overall_match_score

\* df.sort_values("Overall Match Score", ascending=False): the default sort
\* kind is quicksort, which is not stable, so rows with equal scores can
\* come out in any order
sort_values(rows) ==
    {q \in Arrangements(Range(rows), Len(rows)) : IsSortedDescending(q)}

\* lines 35-38 of evaluate_resumes; an empty results list gives a DataFrame
\* with no columns and df['Overall Match Score'] raises KeyError
EvaluateRank ==
    /\ pc = "loop"
    /\ entry = "evaluate_resumes"
    /\ idx = Len(files)
    /\ IF results = <<>>
       THEN /\ pc' = "raised"
            /\ err' = "KeyError"
            /\ df' = df
       ELSE /\ pc' = "returned"
            /\ err' = err
            /\ df' \in sort_values(WithRank(results))
    /\ UNCHANGED <<entry, model_loaded, files, job_description, idx, extracted,
                   results, scorer_calls, encode_calls, call_vars>>

\* what the top-level caller receives
Output ==
    IF pc # "returned" THEN <<>>
    ELSE IF entry = "batch_analyze" THEN results ELSE df


----------------------------------------------------------------------------
(* Single calls: one function applied to one drawn input.                  *)

\* no batch is running
BatchOff ==
    /\ pc = "off"
    /\ entry = "none"
    /\ model_loaded = TRUE
    /\ files = <<>>
    /\ job_description = <<>>
    /\ idx = 0
    /\ extracted = <<>>
    /\ results = <<>>
    /\ df = <<>>
    /\ err = ""
    /\ scorer_calls = {}
    /\ encode_calls = 0

(* extract_text on every document shape.                                   *)

MaxPages == 2

PageTexts == { <<>>, <<" ">>, <<"a", "i">> }

LibOutcomes ==
    {NoLib} \cup {Lib(TRUE, pages) : pages \in SeqsUpTo(PageTexts, MaxPages)}

\* PDF bytes, Word bytes, bytes neither library can read, a zero-length buffer
Documents ==
    {Doc(TRUE, FALSE, "pdf", layer, ocr, NoLib) :
        layer \in LibOutcomes, ocr \in LibOutcomes}
      \cup {Doc(TRUE, FALSE, "docx", NoLib, NoLib, docx) : docx \in LibOutcomes}
      \cup {Doc(TRUE, FALSE, "txt", NoLib, NoLib, NoLib),
            Doc(TRUE, TRUE, "pdf", NoLib, NoLib, NoLib)}

FormatTags == {"pdf", "docx", "txt", "PDF"}

InitExtract ==
    /\ BatchOff
    /\ op = "none"
    /\ args \in [doc : Documents, file_format : FormatTags]
    /\ ret = <<>>

ExtractText ==
    /\ op = "none"
    /\ op' = "extract_text"
    /\ ret' = extract_text(args.doc, args.file_format)
    /\ UNCHANGED <<args, batch_vars>>

SpecExtract == InitExtract /\ [][ExtractText]_vars

(* analyze_resume and compute_similarity on drawn texts and cosines.       *)

ScorerResumes ==
    { <<>>, <<" ", "\n">>, <<"!">>, <<"e">>, <<"a", "i">>,
      <<"M", "L", ",", " ", "a", "i">>, <<"P", "a", "m", " ", "A", "I", " ", "m", "l">>,
      <<"m", "l", " ", "!", " ", "a", "i">> }

ScorerJobs ==
    { <<>>, <<"!", " ">>, <<"e">>, <<"A", "I">>, <<"A", "I", " ", "M", "L">>,
      <<"P", "a", "m", ":", " ", "M", "L", ",", " ", "a", "i">> }

\* a cosine lies in [-1, 1]
CosineRange == -1000..1000

ScorerEmbeddings ==
    {[ok |-> TRUE, cos |-> c] : c \in CosineRange} \cup {[ok |-> FALSE, cos |-> 0]}

InitScorer ==
    /\ BatchOff
    /\ op = "none"
    /\ args \in [resume_text : ScorerResumes, job_description : ScorerJobs,
                 emb : ScorerEmbeddings]
    /\ ret = <<>>

AnalyzeResume ==
    /\ op = "none"
    /\ op' = "analyze_resume"
    /\ \E keywords \in extract_keywords(args.job_description, TopN) :
         ret' = analyze_resume(args.resume_text, args.job_description,
                               keywords, args.emb)
    /\ UNCHANGED <<args, batch_vars>>

ComputeSimilarity ==
    /\ op = "none"
    /\ op' = "compute_similarity"
    /\ ret' = compute_similarity(args.resume_text, args.job_description, args.emb)
    /\ UNCHANGED <<args, batch_vars>>

NextScorer == AnalyzeResume \/ ComputeSimilarity

SpecScorer == InitScorer /\ [][NextScorer]_vars

(* extract_keywords on drawn job descriptions and limits.                  *)

MaxKwChunks == 4

MaxTopN == 3

KeywordChunks ==
    { <<"A", "I", " ">>, <<"a", "i", " ">>, <<"P", "a", "m", " ">>,
      <<"P", "a", " ">>, <<"J", "a", "v", "a">>,
      <<"S", "c", "r", "i", "p", "t", " ">> }

KeywordTexts == {Concat(q) : q \in SeqsUpTo(KeywordChunks, MaxKwChunks)}

InitKeywords ==
    /\ BatchOff
    /\ op = "none"
    /\ args \in [job_desc : KeywordTexts, top_n : 0..MaxTopN]
    /\ ret = <<>>

ExtractKeywords ==
    /\ op = "none"
    /\ op' = "extract_keywords"
    /\ ret' \in extract_keywords(args.job_desc, args.top_n)
    /\ UNCHANGED <<args, batch_vars>>

SpecKeywords == InitKeywords /\ [][ExtractKeywords]_vars

----------------------------------------------------------------------------
(* Field Extractor (resume_Parse.py): the record parse_single_pdf builds   *)
(* from the OCR text of a resume.                                          *)

\* re.sub(r'\D', '', num)
RECURSIVE DigitsOnly(_)
DigitsOnly(s) ==
    IF s = <<>> THEN <<>>
    ELSE (IF IsDigit(Head(s)) THEN <<Head(s)>> ELSE <<>>) \o DigitsOnly(Tail(s))

\* Python's None
None == <<"None">>

\* normalize_phone that keeps the 977 it prefixes
NormalizeKeepPrefix(num) ==
    LET digits == DigitsOnly(num)
    IN  IF Len(digits) = 13 /\ SubSeq(digits, 1, 3) = <<"9", "7", "7">>
        THEN <<"+", "9", "7", "7">> \o digits
        ELSE IF Len(digits) = 10 THEN digits
        ELSE None

normalize_phone(num) ==
    LET digits == DigitsOnly(num)
    IN  IF Len(digits) = 13 /\ SubSeq(digits, 1, 3) = <<"9", "7", "7">>
        THEN <<"+", "9", "7", "7">> \o SubSeq(digits, 4, 13)
        ELSE IF Len(digits) = 10 THEN digits
        ELSE None

\* s[k+1 .. k+n] exist and are all \d
DigitRun(s, k, n) ==
    /\ k + n <= Len(s)
    /\ \A j \in (k + 1)..(k + n) : IsDigit(s[j])

\* 977\d{10} at offset k
Country977(s, k) ==
    /\ k + 3 <= Len(s)
    /\ SubSeq(s, k + 1, k + 3) = <<"9", "7", "7">>
    /\ DigitRun(s, k + 3, 10)

\* length of the match of (\+?977\d{10}|\b\d{10}\b) at offset k; 0 when none
PhoneMatchAt(s, k) ==
    IF k < Len(s) /\ s[k + 1] = "+" /\ Country977(s, k + 1) THEN 14
    ELSE IF Country977(s, k) THEN 13
    ELSE IF WordBoundary(s, k) /\ DigitRun(s, k, 10) /\ WordBoundary(s, k + 10)
         THEN 10
    ELSE 0

\* re.findall(r'(\+?977\d{10}|\b\d{10}\b)', text), scanning from offset k
RECURSIVE FindPhones(_, _)
FindPhones(s, k) ==
    IF k >= Len(s) THEN <<>>
    ELSE LET n == PhoneMatchAt(s, k)
         IN  IF n > 0 THEN <<SubSeq(s, k + 1, k + n)>> \o FindPhones(s, k + n)
             ELSE FindPhones(s, k + 1)

\* [p for p in phones if p]
RECURSIVE Truthy(_)
Truthy(ps) ==
    IF ps = <<>> THEN <<>>
    ELSE (IF Head(ps) = None \/ Head(ps) = <<>> THEN <<>> ELSE <<Head(ps)>>)
         \o Truthy(Tail(ps))

Unknown == <<"U", "n", "k", "n", "o", "w", "n">>

\* the phones list and the "Phone" entry of the record parse_single_pdf
\* returns
phone_field(text) ==
    LET found == FindPhones(text, 0)
        phones == [k \in 1..Len(found) |-> normalize_phone(found[k])]
    IN  [phones |-> Truthy(phones),
         Phone |-> IF phones # <<>> THEN Join(Truthy(phones), <<",", " ">>)
                   ELSE Unknown]

\* extract_text_from_pdf_bytes: ocr_text is what the pages' OCR text and the
\* "\n" after each add up to (whatever was gathered when a page fails)
extract_text_from_pdf_bytes(ocr_text) == Strip(ocr_text)

\* s[k+1 ..] starts with p
HasPrefix(s, k, p) ==
    /\ k + Len(p) <= Len(s)
    /\ SubSeq(s, k + 1, k + Len(p)) = p

\* length of the longest run of characters of a class that starts at
\* s[k+1]
RECURSIVE ClassRun(_, _, _)
ClassRun(s, k, class) ==
    IF k < Len(s) /\ s[k + 1] \in class THEN 1 + ClassRun(s, k + 1, class) ELSE 0

Alnum == Letters \cup Digits

\* [a-zA-Z0-9_.+-]
EmailLocalChars == Alnum \cup {"_", ".", "+", "-"}

\* [a-zA-Z0-9-]
EmailDomainChars == Alnum \cup {"-"}

\* [a-zA-Z0-9-.]
EmailTailChars == Alnum \cup {"-", "."}

\* length of the match of [a-zA-Z0-9_.+-]+@[a-zA-Z0-9-]+\.[a-zA-Z0-9-.]+ at
\* offset k; 0 when none
EmailMatchAt(s, k) ==
    LET local == ClassRun(s, k, EmailLocalChars)
        domain == ClassRun(s, k + local + 1, EmailDomainChars)
        tail == ClassRun(s, k + local + 1 + domain + 1, EmailTailChars)
    IN  IF /\ local >= 1
           /\ HasPrefix(s, k + local, <<"@">>)
           /\ domain >= 1
           /\ HasPrefix(s, k + local + 1 + domain, <<".">>)
           /\ tail >= 1
        THEN local + 1 + domain + 1 + tail
        ELSE 0

\* re.findall of the e-mail pattern, scanning from offset k
RECURSIVE FindEmails(_, _)
FindEmails(s, k) ==
    IF k >= Len(s) THEN <<>>
    ELSE LET n == EmailMatchAt(s, k)
         IN  IF n > 0 THEN <<SubSeq(s, k + 1, k + n)>> \o FindEmails(s, k + n)
             ELSE FindEmails(s, k + 1)

extract_emails(text) == FindEmails(text, 0)

\* [A-Za-z0-9_/.-]
LinkedInPathChars == Alnum \cup {"_", "/", ".", "-"}

\* [A-Za-z0-9_-]
GitHubPathChars == Alnum \cup {"_", "-"}

LinkedInHost ==
    <<"l", "i", "n", "k", "e", "d", "i", "n", ".", "c", "o", "m", "/">>
GitHubHost == <<"g", "i", "t", "h", "u", "b", ".", "c", "o", "m", "/">>

\* length of the match of (?:https?://)?(?:www\.)?<host>[<path class>]+ at
\* offset k; 0 when none
UrlMatchAt(s, k, host, path_class) ==
    LET scheme == IF HasPrefix(s, k, <<"h", "t", "t", "p", "s", ":", "/", "/">>)
                  THEN 8
                  ELSE IF HasPrefix(s, k, <<"h", "t", "t", "p", ":", "/", "/">>)
                  THEN 7 ELSE 0
        www == IF HasPrefix(s, k + scheme, <<"w", "w", "w", ".">>) THEN 4 ELSE 0
        at == k + scheme + www
        path == ClassRun(s, at + Len(host), path_class)
    IN  IF HasPrefix(s, at, host) /\ path >= 1
        THEN scheme + www + Len(host) + path
        ELSE 0

\* matches[0] if matches else "" for re.findall of a URL pattern
FirstUrl(s, host, path_class) ==
    LET starts == {k \in 0..Len(s) : UrlMatchAt(s, k, host, path_class) > 0}
    IN  IF starts = {} THEN <<>>
        ELSE LET k == CHOOSE m \in starts : \A n \in starts : m <= n
             IN  SubSeq(s, k + 1, k + UrlMatchAt(s, k, host, path_class))

extract_linkedin(text) == FirstUrl(text, LinkedInHost, LinkedInPathChars)

\* extract_github with the path class of extract_linkedin
ExtractGithubWidePath(text) == FirstUrl(text, GitHubHost, LinkedInPathChars)

extract_github(text) == FirstUrl(text, GitHubHost, GitHubPathChars)

\* str.splitlines()
RECURSIVE SplitLines(_)
SplitLines(s) ==
    IF s = <<>> THEN <<>>
    ELSE LET breaks == {k \in 1..Len(s) : s[k] = "\n"}
         IN  IF breaks = {} THEN <<s>>
             ELSE LET b == CHOOSE m \in breaks : \A n \in breaks : m <= n
                  IN  <<SubSeq(s, 1, b - 1)>> \o SplitLines(SubSeq(s, b + 1, Len(s)))

\* line.split(":")[-1]
AfterLastColon(line) ==
    LET colons == {k \in 1..Len(line) : line[k] = ":"}
    IN  IF colons = {} THEN line
        ELSE LET c == CHOOSE m \in colons : \A n \in colons : m >= n
             IN  SubSeq(line, c + 1, Len(line))

\* `not name`
Falsy(v) == v = None \/ v = <<>>

\* the name heuristic without its second loop: the text after the colon is
\* kept even when it is empty
NameNoFallback(text) ==
    LET lines == SplitLines(text)
        named == {k \in 1..Len(lines) :
                     IsSubstring(<<"n", "a", "m", "e">>, ToLower(lines[k]))}
        nonblank == {k \in 1..Len(lines) : ~IsBlank(lines[k])}
    IN  IF named # {}
        THEN Strip(AfterLastColon(lines[CHOOSE m \in named : \A n \in named : m <= n]))
        ELSE IF nonblank = {} THEN None
        ELSE Strip(lines[CHOOSE m \in nonblank : \A n \in nonblank : m <= n])

\* the name heuristic of parse_single_pdf and parse_pdfs: the local `name`
\* after the two loops
name_heuristic(text) ==
    LET lines == SplitLines(text)
        named == {k \in 1..Len(lines) :
                     IsSubstring(<<"n", "a", "m", "e">>, ToLower(lines[k]))}
        first == IF named = {} THEN None
                 ELSE Strip(AfterLastColon(
                          lines[CHOOSE m \in named : \A n \in named : m <= n]))
        nonblank == {k \in 1..Len(lines) : ~IsBlank(lines[k])}
    IN  IF ~Falsy(first) THEN first
        ELSE IF nonblank = {} THEN first
        ELSE Strip(lines[CHOOSE m \in nonblank : \A n \in nonblank : m <= n])

\* x or "Unknown"
OrUnknown(x) == IF Falsy(x) THEN Unknown ELSE x

\* the record parse_single_pdf returns (FileName left out), with the locals
\* phones, linkedin and github
parse_single_pdf(ocr_text) ==
    LET text == extract_text_from_pdf_bytes(ocr_text)
        emails == extract_emails(text)
        phone == phone_field(text)
        linkedin == extract_linkedin(text)
        github == extract_github(text)
        name == name_heuristic(text)
    IN  [Name |-> OrUnknown(name),
         Email |-> IF emails # <<>> THEN Join(emails, <<",", " ">>) ELSE Unknown,
         Phone |-> phone.Phone,
         LinkedIn |-> OrUnknown(linkedin),
         GitHub |-> OrUnknown(github),
         Full_Text |-> text,
         phones |-> phone.phones,
         linkedin |-> linkedin,
         github |-> github]

MaxChunks == 5

PhoneChunks ==
    { <<"9", "7", "7">>, <<"1", "2", "3", "4", "5", "6", "7", "8", "9", "0">>,
      <<"1", "2">>, <<"+">>, <<" ">>, <<"a">> }

PhoneTexts == {Concat(q) : q \in SeqsUpTo(PhoneChunks, MaxChunks)}

MaxFieldChunks == 4

NameChunks ==
    { <<"N", "a", "m", "e">>, <<":">>, <<" ">>, <<"\n">>, <<"A", "l">>,
      <<"@", "x", ".", "y">> }

NameTexts == {Concat(q) : q \in SeqsUpTo(NameChunks, MaxFieldChunks)}

UrlChunks ==
    { <<"h", "t", "t", "p", "s", ":", "/", "/">>, <<"w", "w", "w", ".">>,
      LinkedInHost, GitHubHost, <<"a", "b">>, <<"/">>, <<".">>, <<" ">> }

UrlTexts == {Concat(q) : q \in SeqsUpTo(UrlChunks, MaxFieldChunks)}

InitFields ==
    /\ BatchOff
    /\ op = "none"
    /\ args \in [text : PhoneTexts \cup NameTexts \cup UrlTexts]
    /\ ret = <<>>

ParseSinglePdf ==
    /\ op = "none"
    /\ op' = "parse_single_pdf"
    /\ ret' = parse_single_pdf(args.text)
    /\ UNCHANGED <<args, batch_vars>>

SpecFields == InitFields /\ [][ParseSinglePdf]_vars

----------------------------------------------------------------------------
(* The batch.                                                              *)

\* the single-call harness is not in use
Idle == op = "none" /\ args = <<>> /\ ret = <<>>

Init ==
    /\ pc = "new"
    /\ entry \in {"batch_analyze", "evaluate_resumes"}
    /\ model_loaded = FALSE
    /\ files \in SeqsUpTo(BatchDocuments, MaxDocs)
    /\ entry = "batch_analyze" => \A k \in 1..Len(files) : files[k].readable
    /\ job_description \in JobDescriptions
    /\ idx = 0
    /\ extracted = <<>>
    /\ results = <<>>
    /\ df = <<>>
    /\ err = ""
    /\ scorer_calls = {}
    /\ encode_calls = 0
    /\ Idle

Next ==
    \/ Construct
    \/ BatchAnalyzeStep
    \/ BatchAnalyzeReturn
    \/ EvaluateStep
    \/ EvaluateRank

Spec == Init /\ [][Next]_vars

----------------------------------------------------------------------------
(* Properties.                                                             *)

RankedAndReturned == entry = "evaluate_resumes" /\ pc = "returned"

\* C1: a batch of N documents yields exactly N output entries, and no
\* failure on one document (an unreadable file, an extraction or scoring
\* error) aborts the batch.
C1_OneEntryPerDocument ==
    /\ err \notin {"OSError", "ExtractError", "EncodeError"}
    /\ pc = "returned" => Len(Output) = Len(files)

\* C2: the table evaluate_resumes returns for N documents has exactly N rows
\* and their Rank values are exactly 1..N, whatever scores tie.
C2_RanksArePermutation ==
    RankedAndReturned =>
        /\ Len(df) = Len(files)
        /\ {df[k].Rank : k \in 1..Len(df)} = 1..Len(files)
        /\ \A a, b \in 1..Len(df) : a # b => df[a].Rank # df[b].Rank

C2_Witness ==
    /\ RankedAndReturned
    /\ Len(df) = 3
    /\ \E a, b, c \in 1..3 :
         /\ a # b
         /\ df[a].overall_match_score = df[b].overall_match_score
         /\ df[c].overall_match_score # df[a].overall_match_score

\* C3: of two documents with the same overall_match_score the one earlier in
\* the input has the strictly smaller rank, and of two documents with
\* different scores the one with the higher score has the smaller rank.
C3_TieBreakByInputOrder ==
    RankedAndReturned =>
        \A a, b \in 1..Len(df) :
            /\ (/\ df[a].pos < df[b].pos
                /\ df[a].overall_match_score = df[b].overall_match_score)
                 => df[a].Rank < df[b].Rank
            /\ df[a].overall_match_score > df[b].overall_match_score
                 => df[a].Rank < df[b].Rank

C3_Witness ==
    /\ RankedAndReturned
    /\ \E a, b, c \in 1..Len(df) :
         /\ df[a].pos < df[b].pos
         /\ df[a].overall_match_score = df[b].overall_match_score
         /\ df[a].overall_match_score > 0
         /\ df[c].overall_match_score > df[a].overall_match_score
         /\ df[c].pos > df[b].pos

\* C4: a document whose extracted text is blank is not passed to the Scorer
\* and gets a sentinel entry (score 0.0, "No content detected", an error
\* tag); the Scorer is invoked exactly for the documents with non-blank text.
C4_BlankTextSkipsScorer ==
    \A k \in 1..Len(extracted) :
        IF IsBlank(extracted[k].text)
        THEN /\ k \notin scorer_calls
             /\ k <= Len(results) =>
                  /\ results[k].overall_match_score = 0
                  /\ results[k].summary = "No content detected"
                  /\ results[k].Error # NoError
        ELSE k \in scorer_calls

\* C9: a failed model load reaches the caller as an error before any
\* document is extracted or scored, and no document is processed while the
\* model is not loaded.
C9_ModelLoadFailureIsFatal ==
    /\ err = "ModelLoadError" =>
         /\ pc = "raised"
         /\ idx = 0 /\ extracted = <<>> /\ results = <<>> /\ Output = <<>>
         /\ scorer_calls = {} /\ encode_calls = 0
    /\ (pc = "raised" /\ ~model_loaded) => err = "ModelLoadError"
    /\ (pc \in {"loop", "returned"} \/ idx > 0) => model_loaded

C9_Witness ==
    /\ err = "ModelLoadError"
    /\ ~model_loaded
    /\ Len(files) = MaxDocs

\* a step of the extraction that was entered raised
StepFailed(doc, file_format) ==
    /\ ~doc.empty
    /\ \/ file_format = "pdf" /\ ~doc.layer.ok
       \/ /\ file_format = "pdf"
          /\ doc.layer.ok
          /\ IsBlank(LayerText(doc.layer.pages))
          /\ ~doc.ocr.ok
       \/ file_format = "docx" /\ ~doc.docx.ok

\* C8: extract_text never raises and always returns a string; when a step
\* it entered fails (text layer, DOCX decoding, page rendering, OCR) the
\* result is the empty string.
C8_ExtractNeverRaises ==
    op = "extract_text" =>
        /\ ~ret.raised
        /\ ret.text \in Seq(STRING)
        /\ StepFailed(args.doc, args.file_format) => ret.text = <<>>

C8_Witness ==
    /\ op = "extract_text"
    /\ args.file_format = "pdf"
    /\ args.doc.layer.ok
    /\ ~args.doc.ocr.ok
    /\ "ocr" \in ret.calls
    /\ ret.text = <<>>

\* C5: the overall_match_score of the Scorer lies in [0.0, 100.0] for every
\* resume, job description and cosine value.
C5_ScoreWithinBounds ==
    (op = "analyze_resume" /\ ~ret.raised) =>
        (0 <= ret.overall_match_score /\ ret.overall_match_score <= 1000)

\* the label of the band table for a final score in tenths
BandLabel(s) ==
    CHOOSE label \in {"Outstanding Match", "Strong Match", "Moderate Match",
                      "Needs Improvement", "Unsatisfactory"} :
        /\ label = "Outstanding Match" <=> s > 800
        /\ label = "Strong Match" <=> (650 < s /\ s <= 800)
        /\ label = "Moderate Match" <=> (500 < s /\ s <= 650)
        /\ label = "Needs Improvement" <=> (350 < s /\ s <= 500)
        /\ label = "Unsatisfactory" <=> s <= 350

\* C6: the summary is the label of the band of the rounded score, with
\* strict lower bounds: 80.0, 65.0, 50.0 and 35.0 fall in the lower band.
C6_SummaryBands ==
    (op = "analyze_resume" /\ ~ret.raised) =>
        ret.summary = BandLabel(ret.overall_match_score)

C6_Witness ==
    /\ op = "analyze_resume"
    /\ ~ret.raised
    /\ ret.overall_match_score = 800
    /\ ret.summary = "Strong Match"

\* C7: when either input of a similarity computation is blank (the texts
\* compute_similarity is given; in the Scorer, the normalized texts) the
\* similarity is 0.0 and the embedding model is not called.
C7_BlankInputZeroLaw ==
    /\ (/\ op = "compute_similarity"
        /\ IsBlank(args.resume_text) \/ IsBlank(args.job_description))
         => (ret.sim = 0 /\ ret.encodes = 0 /\ ~ret.raised)
    /\ (/\ op = "analyze_resume"
        /\ \/ IsBlank(preprocess_text(args.resume_text))
           \/ IsBlank(preprocess_text(args.job_description)))
         => (ret.semantic_relevance = 0 /\ ret.encodes = 0 /\ ~ret.raised)

C7_Witness ==
    /\ op = "analyze_resume"
    /\ ~IsBlank(args.resume_text)
    /\ IsBlank(preprocess_text(args.resume_text))
    /\ ~IsBlank(preprocess_text(args.job_description))
    /\ args.emb.ok /\ args.emb.cos > 0
    /\ ret.semantic_relevance = 0
    /\ ret.encodes = 0

AllDigits(s) == \A k \in 1..Len(s) : IsDigit(s[k])

\* "+977" followed by exactly 10 digits that follow 977 in the text
IsCountryForm(e, text) ==
    /\ Len(e) = 14
    /\ SubSeq(e, 1, 4) = <<"+", "9", "7", "7">>
    /\ AllDigits(SubSeq(e, 5, 14))
    /\ IsSubstring(<<"9", "7", "7">> \o SubSeq(e, 5, 14), text)

\* a 10-digit sequence of the text, unchanged
IsBareForm(e, text) == Len(e) = 10 /\ AllDigits(e) /\ IsSubstring(e, text)

\* C10: every phone entry is "+977" plus the last 10 digits of a 13-digit
\* sequence beginning with 977, or a bare 10-digit sequence unchanged; the
\* Phone field joins the entries with ", " and is "Unknown" when there is
\* none.
C10_PhoneForms ==
    op = "parse_single_pdf" =>
        /\ \A k \in 1..Len(ret.phones) :
             IsCountryForm(ret.phones[k], args.text)
               \/ IsBareForm(ret.phones[k], args.text)
        /\ ret.phones = <<>> => ret.Phone = Unknown
        /\ ret.phones # <<>> => ret.Phone = Join(ret.phones, <<",", " ">>)

C10_Witness ==
    /\ op = "parse_single_pdf"
    /\ Len(ret.phones) = 2
    /\ ret.phones[1] = <<"+", "9", "7", "7", "1", "2", "3", "4", "5", "6", "7",
                         "8", "9", "0">>
    /\ ret.phones[2] = <<"1", "2", "3", "4", "5", "6", "7", "8", "9", "0">>

\* C11: the table evaluate_resumes returns is in non-increasing order of
\* overall_match_score and the row at output position k carries Rank k, also
\* among rows with equal scores.
C11_RowOrderAgreesWithRank ==
    RankedAndReturned =>
        /\ IsSortedDescending(df)
        /\ \A k \in 1..Len(df) : df[k].Rank = k

\* C12: overall_match_score is min(0.60 * semantic_score + 0.40 *
\* keyword_score, 100.0) rounded to one decimal, where semantic_score is 100
\* times the similarity of the normalized resume and the normalized job
\* description (0 when either is blank, else the cosine); the weights are
\* the same on every call.
C12_HybridScoreFormula ==
    (op = "analyze_resume" /\ ~ret.raised) =>
        LET sim == IF Strip(ret.clean_resume) = <<>> \/ Strip(ret.clean_job) = <<>>
                   THEN 0 ELSE args.emb.cos
            m == Len(ret.keywords_matched)
            t == Len(ret.keywords_total)
            \* 0.60 * semantic_score + 0.40 * keyword_score in tenths is
            \* weighted / scale
            scale == IF t = 0 THEN 10 ELSE 10 * t
            weighted == IF t = 0 THEN 6 * sim ELSE 6 * sim * t + 4000 * m
            capped == IF weighted > 1000 * scale THEN 1000 * scale ELSE weighted
            gap == ret.overall_match_score * scale - capped
        IN  /\ ret.semantic_relevance = sim
            /\ -scale <= 2 * gap /\ 2 * gap <= scale

C12_Witness ==
    /\ op = "analyze_resume"
    /\ ~ret.raised
    /\ ret.semantic_relevance = 437
    /\ Len(ret.keywords_total) = 3
    /\ Len(ret.keywords_matched) = 2
    /\ ret.overall_match_score = 529

\* C13: a keyword is in keywords_matched exactly when its lower-cased form
\* is a substring of the normalized resume text; keywords_matched is a
\* subset of the keyword set of the job description; keyword_score is
\* |keywords_matched| / |KeywordSet| * 100, and 0 when the set is empty.
C13_KeywordMatching ==
    (op = "analyze_resume" /\ ~ret.raised) =>
        LET InResume(kw) == IsSubstring(ToLower(kw), ret.clean_resume)
            m == Len(ret.keywords_matched)
            t == Len(ret.keywords_total)
        IN  /\ ret.clean_resume = preprocess_text(args.resume_text)
            /\ Range(ret.keywords_total) \subseteq KeywordSet(args.job_description)
            /\ ret.keywords_matched = SelectSeq(ret.keywords_total, InResume)
            /\ Range(ret.keywords_matched) \subseteq KeywordSet(args.job_description)
            /\ t = 0 => ret.keyword_score.num = 0 /\ ret.keyword_score.den = 1
            /\ t > 0 => ret.keyword_score.num * t = 100 * m * ret.keyword_score.den

C13_Witness ==
    /\ op = "analyze_resume"
    /\ ~ret.raised
    /\ Len(ret.keywords_total) = 3
    /\ ret.keywords_matched = << <<"A", "i">> >>

\* C14: on the PDF path OCR is invoked exactly when the text-layer
\* extraction completed without error and the text of all its pages is
\* blank; a non-blank text layer is returned and OCR is not invoked; the
\* .docx path never invokes OCR.
C14_OcrOnlyForBlankTextLayer ==
    op = "extract_text" =>
        LET layer == args.doc.layer
            AllPagesBlank ==
                \A k \in 1..Len(layer.pages) : Strip(layer.pages[k]) = <<>>
            PdfPath == args.file_format = "pdf" /\ ~args.doc.empty
        IN  /\ PdfPath =>
                /\ "ocr" \in ret.calls <=> (layer.ok /\ AllPagesBlank)
                /\ (layer.ok /\ ~AllPagesBlank) =>
                       /\ ret.text = LayerText(layer.pages)
                       /\ ret.text # <<>>
            /\ ~PdfPath => "ocr" \notin ret.calls

C14_Witness ==
    /\ op = "extract_text"
    /\ args.file_format = "pdf"
    /\ args.doc.layer.ok
    /\ Len(args.doc.layer.pages) = 2
    /\ "ocr" \in ret.calls
    /\ ret.text # <<>>

\* C15: extract returns "" and invokes neither the PDF extractor, the DOCX
\* extractor nor OCR when the buffer is empty, whatever the tag, and when the
\* tag is neither "pdf" nor "docx", whatever the buffer.
C15_NoExtractorOnEmptyOrUnsupported ==
    (/\ op = "extract_text"
     /\ args.doc.empty \/ args.file_format \notin {"pdf", "docx"}) =>
        /\ ~ret.raised
        /\ ret.text = <<>>
        /\ ret.calls = {}

C15_Witness ==
    /\ op = "extract_text"
    /\ args.file_format \notin {"pdf", "docx"}
    /\ ~args.doc.empty
    /\ args.doc.layer.ok
    /\ ~IsBlank(LayerText(args.doc.layer.pages))
    /\ ret.text = <<>>

\* a text with no upper-case letter, only word characters, whitespace and
\* hyphens, no whitespace at either end and no two whitespace characters in
\* a row
IsNormalized(t) ==
    /\ \A k \in 1..Len(t) :
         /\ t[k] \notin Upper
         /\ IsWord(t[k]) \/ IsSpace(t[k]) \/ t[k] = "-"
    /\ t # <<>> => ~IsSpace(t[1]) /\ ~IsSpace(t[Len(t)])
    /\ \A k \in 1..(Len(t) - 1) : ~(IsSpace(t[k]) /\ IsSpace(t[k + 1]))

\* C16: the normalized resume and the normalized job description that the
\* Scorer passes to the similarity and keyword-match steps are lower-cased,
\* contain only word characters, whitespace and hyphens, and are
\* whitespace-collapsed (no leading or trailing whitespace, no run of two or
\* more whitespace characters).
C16_NormalizedText ==
    op = "analyze_resume" =>
        /\ IsNormalized(ret.clean_resume)
        /\ IsNormalized(ret.clean_job)

\* t occurs in s at offset k between two word boundaries
OccursAsToken(t, s, k) ==
    /\ k + Len(t) <= Len(s)
    /\ SubSeq(s, k + 1, k + Len(t)) = t
    /\ WordBoundary(s, k)
    /\ WordBoundary(s, k + Len(t))

\* an upper-case letter followed by two or more lower-case letters,
\* standing in the job description as a token
IsProperNounOf(kw, job_desc) ==
    /\ Len(kw) >= 3
    /\ kw[1] \in Upper
    /\ \A k \in 2..Len(kw) : kw[k] \in Lower
    /\ \E k \in 0..Len(job_desc) : OccursAsToken(kw, job_desc, k)

\* the title-cased form of a token of the job description that equals a
\* vocabulary term up to letter case
IsTitledTechTermOf(kw, job_desc) ==
    \E j \in 1..Len(TechVocabulary), k \in 0..Len(job_desc) :
        /\ Len(kw) = Len(TechVocabulary[j])
        /\ k + Len(kw) <= Len(job_desc)
        /\ LET found == SubSeq(job_desc, k + 1, k + Len(kw))
           IN  /\ ToLower(found) = ToLower(TechVocabulary[j])
               /\ OccursAsToken(found, job_desc, k)
               /\ kw = Title(found)

\* C19: for every job description and every top_n >= 0, extract_keywords
\* returns a sequence without duplicates, of at most top_n elements, each of
\* them a proper-noun token of the job description or the title-cased form of
\* a vocabulary term matched in it case-insensitively.
C19_KeywordsDistinctBoundedFromJob ==
    op = "extract_keywords" =>
        /\ \A a, b \in 1..Len(ret) : a # b => ret[a] # ret[b]
        /\ Len(ret) <= args.top_n
        /\ \A a \in 1..Len(ret) :
             \/ IsProperNounOf(ret[a], args.job_desc)
             \/ IsTitledTechTermOf(ret[a], args.job_desc)

C19_Witness ==
    /\ op = "extract_keywords"
    /\ args.top_n = 2
    /\ Len(ret) = 2
    /\ Cardinality(KeywordSet(args.job_desc)) = 3
    /\ Len(ProperNouns(args.job_desc, 0)) + Len(TechKeywords(args.job_desc, 0)) > 3
    /\ \E a \in 1..2 : ret[a] = <<"A", "i">>

ContainsName(line) ==
    \E k \in 0..(Len(line) - 4) :
        ToLower(SubSeq(line, k + 1, k + 4)) = <<"n", "a", "m", "e">>

\* x is what stands in the line after its last colon (the whole line when it
\* has no colon), trimmed
IsTrimmedAfterLastColon(x, line) ==
    \E c \in 0..Len(line) :
        /\ c = 0 \/ line[c] = ":"
        /\ \A k \in (c + 1)..Len(line) : line[k] # ":"
        /\ x = Strip(SubSeq(line, c + 1, Len(line)))

\* x is the first non-blank line of the text, trimmed
IsFirstNonBlankLine(x, lines) ==
    \E k \in 1..Len(lines) :
        /\ Strip(lines[k]) # <<>>
        /\ \A j \in 1..(k - 1) : Strip(lines[j]) = <<>>
        /\ x = Strip(lines[k])

FirstNameLine(lines) ==
    {k \in 1..Len(lines) :
        ContainsName(lines[k]) /\ \A j \in 1..(k - 1) : ~ContainsName(lines[j])}

\* C17 as stated: for a text with a line containing "name" the Name field is
\* the trimmed substring after the last colon of the first such line; with no
\* such line it is the first non-blank line, trimmed; it is "Unknown" for an
\* empty text; it is never the empty string.
C17_NameAfterColon ==
    op = "parse_single_pdf" =>
        LET lines == SplitLines(ret.Full_Text)
        IN  /\ \A k \in FirstNameLine(lines) :
                 IsTrimmedAfterLastColon(ret.Name, lines[k])
            /\ (FirstNameLine(lines) = {} /\ ret.Full_Text # <<>>) =>
                 IsFirstNonBlankLine(ret.Name, lines)
            /\ ret.Full_Text = <<>> => ret.Name = Unknown
            /\ ret.Name # <<>>

\* C17: for a text with a line containing "name" the Name field is the
\* trimmed substring after the last colon of the first such line (the whole
\* line when it has no colon) when that substring is not empty; when it is
\* empty, or no line contains "name", the Name field is the first non-blank
\* line, trimmed; it is "Unknown" for an empty text; it is never the empty
\* string.
C17_NameHeuristic ==
    op = "parse_single_pdf" =>
        LET lines == SplitLines(ret.Full_Text)
            Labelled == \E k \in FirstNameLine(lines) :
                            ~IsTrimmedAfterLastColon(<<>>, lines[k])
        IN  /\ Labelled =>
                 \A k \in FirstNameLine(lines) :
                     IsTrimmedAfterLastColon(ret.Name, lines[k])
            /\ (~Labelled /\ ret.Full_Text # <<>>) =>
                 IsFirstNonBlankLine(ret.Name, lines)
            /\ ret.Full_Text = <<>> => ret.Name = Unknown
            /\ ret.Name # <<>>

C17_Witness ==
    /\ op = "parse_single_pdf"
    /\ ret.Full_Text = <<"N", "a", "m", "e", ":", "\n", "A", "l">>
    /\ ret.Name = <<"N", "a", "m", "e", ":">>

\* the strings (https?://)?(www\.)?<host> can spell
UrlHeads(host) ==
    {scheme \o www \o host :
        scheme \in {<<>>, <<"h", "t", "t", "p", ":", "/", "/">>,
                    <<"h", "t", "t", "p", "s", ":", "/", "/">>},
        www \in {<<>>, <<"w", "w", "w", ".">>}}

\* the URLs that match at offset k: a head followed by the longest non-empty
\* run of path characters
UrlsAt(s, k, host, path_chars) ==
    LET heads == {head \in UrlHeads(host) : HasPrefix(s, k, head)}
        IsEnd(e) ==
            \E head \in heads :
                /\ k + Len(head) < e
                /\ \A j \in (k + Len(head) + 1)..e : s[j] \in path_chars
                /\ e = Len(s) \/ s[e + 1] \notin path_chars
    IN  IF heads = {} THEN {}
        ELSE {SubSeq(s, k + 1, e) : e \in {n \in (k + 1)..Len(s) : IsEnd(n)}}

\* u is the leftmost match in s, or empty_value when s has no match
IsFirstUrlOr(u, s, host, path_chars, empty_value) ==
    LET starts == {k \in 0..Len(s) : UrlsAt(s, k, host, path_chars) # {}}
    IN  IF starts = {} THEN u = empty_value
        ELSE \E k \in starts :
                /\ \A j \in starts : k <= j
                /\ u \in UrlsAt(s, k, host, path_chars)

====
